---- MODULE Spec2Model ----
(***************************************************************************)
(* Model of foldseek's createdb (src/strucclustutils/structcreatedb.cpp)   *)
(* and of the 3Di core it calls (lib/3di, known here through the code      *)
(* excerpts of src/reports/3di.md and through the specification).          *)
(*                                                                         *)
(* Four specifications share the module:                                   *)
(*   SpecCore  one call of structure2states on one chain, followed by the  *)
(*             driver's read of the returned state codes;                  *)
(*   SpecFeat  StructureTo3Di::calcFeatures on a residue pair (i, j);      *)
(*   SpecDrv   the OpenMP parallel loop of createdb over the input files;  *)
(*   SpecDir   the directory worklist at the head of createdb.             *)
(*                                                                         *)
(* Doubles are kept exact: a coordinate is an integer, a length is kept as *)
(* its square, a unit vector as (direction, squared length) and a cosine   *)
(* as (numerator, squared denominator).  A division by a zero length is    *)
(* the IEEE NaN, carried as the flag nan.                                  *)
(***************************************************************************)
EXTENDS Integers, Sequences, FiniteSets, TLC

VARIABLES
    \* ---- SpecCore / SpecFeat: one chain through the 3Di core
    pc,          \* position of the call: "off", "start", "paired", "encoded", "read", "features"
    len,         \* chain length L
    ca,          \* C-alpha coordinates, 0 .. len-1
    cb,          \* effective C-beta coordinates, 0 .. len-1
    partnerIdx,  \* partner table, -1 where none
    mask,        \* validity bit per residue
    embedded,    \* residues whose features were computed and fed to the network
    states,      \* state code per residue
    line,        \* characters the driver pushed for the chain
    fi, fj,      \* SpecFeat: the residue pair
    feat,        \* SpecFeat: the descriptor calcFeatures returned
    \* ---- SpecDrv: the parallel loop
    pcMain,      \* "off", "parallel", "joined", "closed", "lookup", "done", "exit"
    writeLookup, \* par.writeLookup
    nthreads,    \* size of the OpenMP team
    loads,       \* per file: what GemmiWrapper::load yields for it
    tpc,         \* per thread: "loop", "chains", "done"
    iter,        \* per thread: current value of the loop variable i
    chn,         \* per thread: current value of ch
    alphabet3di, \* per buffer owner: std::vector<char> alphabet3di
    camol,       \* per buffer owner: std::vector<float> camol
    incorrectPriv, \* per thread: the reduction's private copy of incorrectFiles
    incorrectFiles, \* the shared incorrectFiles after the region
    torsiondbw, hdbw, cadbw, aadbw, \* per thread_idx: entries written, in order
    disk,        \* the files createdb leaves: the four databases, .lookup and .source
    \* ---- SpecDir: the directory worklist
    pcDir,       \* "off", "args", "walk", "done"
    tree,        \* the directory tree below the argument
    argv,        \* par.filenames
    filenames,   \* std::vector<std::string> filenames
    outputName,
    dirs,        \* std::vector<std::string> dirs
    opened       \* the opendir calls made so far: path and whether a stream came back

coreVars == <<pc, len, ca, cb, partnerIdx, mask, embedded, states, line, fi, fj, feat>>
drvVars  == <<pcMain, nthreads, loads, tpc, iter, chn, alphabet3di, camol,
              incorrectPriv, incorrectFiles, torsiondbw, hdbw, cadbw, aadbw,
              writeLookup, disk>>
dirVars  == <<pcDir, tree, argv, filenames, outputName, dirs, opened>>
vars     == <<coreVars, drvVars, dirVars>>

\* ------------------------------------------------------------------ bounds
MaxLen    == 6   \* longest chain of SpecCore (so |j-i| passes PenaltyClip)
MaxSep    == 6   \* largest interior index of SpecFeat (so |j-i| passes the clip)
MaxFiles  == 2   \* most input files of SpecDrv
MaxChains == 2   \* most chains per file
MaxThreads == 2  \* largest OpenMP team
MaxNodes  == 3   \* most entries below the directory argument

\* ------------------------------------------------------------- arithmetic
Abs(n) == IF n < 0 THEN -n ELSE n
Min(a, b) == IF a <= b THEN a ELSE b

\* ------------------------------------------------------- Alphabet3Di etc.
CENTROID_CNT == 20
INVALID_STATE_reserved == CENTROID_CNT
\* Alphabet3Di::INVALID_STATE: "assign invalid residues to coil state"
INVALID_STATE == 2
FEATURE_CNT == 10
\* Alphabet3diSeqDist::INVALID_STATE = CENTROID_CNT
SeqDist_CENTROID_CNT == 20
SeqDist_INVALID_STATE == SeqDist_CENTROID_CNT

\* ----------------------------------------------------- geometry primitives
Vec3(x, y, z) == [x |-> x, y |-> y, z |-> z]
add(a, b) == Vec3(a.x + b.x, a.y + b.y, a.z + b.z)
sub(a, b) == Vec3(a.x - b.x, a.y - b.y, a.z - b.z)

\* StructureTo3DiBase::norm: a / sqrt(a.a), with no test of len = 0.  The result
\* is the direction a with its squared length; all three components are 0/0 = NaN
\* when a is the zero vector.
norm(a) ==
    LET len2 == a.x * a.x + a.y * a.y + a.z * a.z
    IN  [v |-> a, len2 |-> len2, nan |-> len2 = 0]

\* dot of two unit vectors: (a.b) / sqrt(|a|^2 |b|^2); NaN as soon as one is NaN
dot(u, w) ==
    [num  |-> u.v.x * w.v.x + u.v.y * w.v.y + u.v.z * w.v.z,
     den2 |-> u.len2 * w.len2,
     nan  |-> u.nan \/ w.nan]

\* StructureTo3DiBase::calcDistanceBetween: sqrt(dx*dx + dy*dy + dz*dz), kept as
\* its square
calcDistanceBetween_noZ(a, b) ==
    LET dx == a.x - b.x
        dy == a.y - b.y
    IN  dx * dx + dy * dy
calcDistanceBetween(a, b) ==
    LET dx == a.x - b.x
        dy == a.y - b.y
        dz == a.z - b.z
    IN  dx * dx + dy * dy + dz * dz

\* ------------------------------------------------------ feature extractor
fabs(x) == IF x < 0 THEN -x ELSE x
fmin(a, b) == IF a <= b THEN a ELSE b
copysign(m, s) == IF s < 0 THEN -fabs(m) ELSE fabs(m)

\* features[8] = copysign(fmin(fabs(j - i), 4), j - i)
feature8_noabs(i, j) == copysign(fmin(j - i, 4), j - i)
feature8(i, j) == copysign(fmin(fabs(j - i), 4), j - i)

\* features[9] = copysign(log(fabs(j - i) + 1), j - i): the value is
\* -ln(logOf) when neg and +ln(logOf) otherwise
feature9(i, j) == [neg |-> (j - i) < 0, logOf |-> fabs(j - i) + 1]

\* StructureTo3Di::calcFeatures(ca, i, j): slot k of the result is features[k]
calcFeatures(c, i, j) ==
    LET u1 == norm(sub(c[i], c[i - 1]))
        u2 == norm(sub(c[i + 1], c[i]))
        u3 == norm(sub(c[j], c[j - 1]))
        u4 == norm(sub(c[j + 1], c[j]))
        u5 == norm(sub(c[j], c[i]))
    IN  [k \in 0 .. FEATURE_CNT - 1 |->
            CASE k = 0 -> dot(u1, u2)
              [] k = 1 -> dot(u3, u4)
              [] k = 2 -> dot(u1, u5)
              [] k = 3 -> dot(u3, u5)
              [] k = 4 -> dot(u1, u4)
              [] k = 5 -> dot(u2, u3)
              [] k = 6 -> dot(u1, u3)
              [] k = 7 -> [sq |-> calcDistanceBetween(c[i], c[j])]
              [] k = 8 -> feature8(i, j)
              [] k = 9 -> feature9(i, j)]

\* some cosine of the descriptor is NaN
HasNaN(f) == \E k \in 0 .. 6 : f[k].nan

\* ------------------------------------------------------- partner selector
\* sequence-penalty weight w and clip D_MAX of cost(i, j) = dist + w * f(|j - i|),
\* f(d) = min(d, D_MAX); both are chosen by the asset
PenaltyWeight == 1
PenaltyClip == 2

SeqPenalty(d) == PenaltyWeight * Min(d, PenaltyClip)

\* cost(i, j) as the pair (squared distance, penalty): its value is sqrt(d2) + pen
Cost(b, i, j) ==
    [d2 |-> calcDistanceBetween(b[i], b[j]), pen |-> SeqPenalty(Abs(j - i))]

\* sqrt(a) <= sqrt(b) + r, for naturals a, b and an integer r, decided exactly
SqrtLE(a, b, r) ==
    IF r >= 0
    THEN LET t == a - b - r * r IN t <= 0 \/ t * t <= 4 * r * r * b
    ELSE LET t == b - a - r * r IN t >= 0 /\ 4 * r * r * a <= t * t

CostLE(c1, c2) == SqrtLE(c1.d2, c2.d2, c2.pen - c1.pen)
CostLT(c1, c2) == ~CostLE(c2, c1)
CostEQ(c1, c2) == CostLE(c1, c2) /\ CostLE(c2, c1)

\* j may be the partner of i: j /= i and both j-1 and j+1 are in range
Candidate_withEnds(L, i, j) == j /= i /\ 0 <= j /\ j <= L - 1
Candidate(L, i, j) == j /= i /\ 0 < j /\ j < L - 1

\* j replaces the best partner found so far: lower cost, or equal cost and
\* nearer in sequence (the scan is by increasing j, so the smaller j stays)
Better(b, i, j, best) ==
    \/ best = -1
    \/ CostLT(Cost(b, i, j), Cost(b, i, best))
    \/ CostEQ(Cost(b, i, j), Cost(b, i, best)) /\ Abs(j - i) < Abs(best - i)

RECURSIVE ScanPartner(_, _, _, _, _)
ScanPartner(b, L, i, j, best) ==
    IF j >= L THEN best
    ELSE ScanPartner(b, L, i, j + 1,
            IF Candidate(L, i, j) /\ Better(b, i, j, best) THEN j ELSE best)

\* the partner table: -1 for the endpoints and where no candidate exists
findResiduePairStates(b, L) ==
    [i \in 0 .. L - 1 |->
        IF i = 0 \/ i = L - 1 THEN -1 ELSE ScanPartner(b, L, i, 0, -1)]

\* validity: a residue is valid when it has a partner
ValidMask(partner, L) == [i \in 0 .. L - 1 |-> partner[i] /= -1]

\* ------------------------------------------- embedding network, quantiser
\* The asset (layers, centroids) is not part of the sources.  The stand-in is one
\* identity layer y = W x + b whose only non-zero weight reads slot 8, and the
\* centroid table C[k] = (k - 10, 0).  Any NaN input makes the output NaN.
Embed(f) ==
    IF HasNaN(f) THEN [nan |-> TRUE, e |-> <<0, 0>>]
    ELSE [nan |-> FALSE, e |-> <<f[8], 0>>]

Centroid(k) == <<k - 10, 0>>

SqDist(e, c) == (e[1] - c[1]) * (e[1] - c[1]) + (e[2] - c[2]) * (e[2] - c[2])

\* argmin_k ||e - C[k]||^2, ties to the smallest k; with a NaN embedding no
\* distance compares smaller than another and k = 0 stays
Quantise(emb) ==
    IF emb.nan THEN 0
    ELSE CHOOSE k \in 0 .. CENTROID_CNT - 1 :
            \A m \in 0 .. CENTROID_CNT - 1 :
                \/ SqDist(emb.e, Centroid(k)) < SqDist(emb.e, Centroid(m))
                \/ SqDist(emb.e, Centroid(k)) = SqDist(emb.e, Centroid(m)) /\ k <= m

\* ------------------------------------------------------------------ driver
\* state[i] for one residue: features, network and quantiser when valid,
\* INVALID otherwise
StateOf(c, partner, valid, i) ==
    IF valid[i] THEN Quantise(Embed(calcFeatures(c, i, partner[i])))
    ELSE INVALID_STATE

EncodeAll(c, partner, valid, L) ==
    [i \in 0 .. L - 1 |-> StateOf(c, partner, valid, i)]

\* StructureTo3Di::structure2states(ca, n, c, cb, len): the state array
structure2states(c, b, L) ==
    LET partner == findResiduePairStates(b, L)
    IN  EncodeAll(c, partner, ValidMask(partner, L), L)

\* mat.num2aa: state code -> character
num2aa ==
    <<"A", "R", "N", "D", "C", "Q", "E", "G", "H", "I", "L",
      "K", "M", "F", "P", "S", "T", "W", "Y", "V", "X">>

\* for (pos = 0; pos < chainLen; pos++) alphabet3di.push_back(num2aa[states[pos]])
RECURSIVE PushStates_short(_, _, _, _)
PushStates_short(buf, st, pos, chainLen) ==
    IF pos >= chainLen - 1 THEN buf
    ELSE PushStates_short(Append(buf, num2aa[st[pos] + 1]), st, pos + 1, chainLen)
RECURSIVE PushLoop(_, _, _, _)
PushLoop(buf, st, pos, chainLen) ==
    IF pos >= chainLen THEN buf
    ELSE PushLoop(Append(buf, num2aa[st[pos] + 1]), st, pos + 1, chainLen)
PushStates(buf, st, pos, chainLen) == PushLoop(buf, st, pos, chainLen)

\* ============================================================== SpecCore
\* Inputs: a chain grows from the origin by one step per residue, forth or back
\* (the zero step puts two consecutive C-alpha atoms on the same point); the effective C-beta
\* sits one unit above its C-alpha or on it, so that distances of 0, 1 and more
\* occur and costs tie across different sequence separations; at the two ends,
\* which are no candidates, it sits on the C-alpha.
Origin == Vec3(0, 0, 0)
Steps == {Vec3(1, 0, 0), Vec3(-1, 0, 0), Vec3(0, 0, 0)}
Sides == {Vec3(0, 0, 1), Vec3(0, 0, 0)}

RECURSIVE Walk(_, _)
Walk(st, k) == IF k = 0 THEN Origin ELSE add(Walk(st, k - 1), st[k])

Chain(L, st) == [k \in 0 .. L - 1 |-> Walk(st, k)]

InitCoreOff ==
    /\ pc = "off" /\ len = 0 /\ ca = <<>> /\ cb = <<>>
    /\ partnerIdx = <<>> /\ mask = <<>> /\ embedded = {} /\ states = <<>>
    /\ line = <<>> /\ fi = 0 /\ fj = 0 /\ feat = <<>>

InitDrvOff ==
    /\ pcMain = "off" /\ nthreads = 0 /\ loads = <<>>
    /\ tpc = <<>> /\ iter = <<>> /\ chn = <<>>
    /\ alphabet3di = <<>> /\ camol = <<>>
    /\ incorrectPriv = <<>> /\ incorrectFiles = 0
    /\ torsiondbw = <<>> /\ hdbw = <<>> /\ cadbw = <<>> /\ aadbw = <<>>
    /\ writeLookup = FALSE /\ disk = <<>>

InitDirOff ==
    /\ pcDir = "off" /\ tree = <<>> /\ argv = <<>> /\ filenames = <<>>
    /\ outputName = <<>> /\ dirs = <<>> /\ opened = <<>>

InitCore ==
    /\ InitDrvOff /\ InitDirOff
    /\ pc = "start"
    /\ \E L \in 1 .. MaxLen :
        \E st \in [1 .. L - 1 -> Steps], sd \in [1 .. L - 2 -> Sides] :
            /\ len = L
            /\ ca = Chain(L, st)
            /\ cb = [k \in 0 .. L - 1 |->
                        IF 0 < k /\ k < L - 1 THEN add(Walk(st, k), sd[k]) ELSE Walk(st, k)]
    /\ partnerIdx = <<>> /\ mask = <<>> /\ embedded = {} /\ states = <<>>
    /\ line = <<>> /\ fi = 0 /\ fj = 0 /\ feat = <<>>

\* partner selection for the whole chain
FindPartners ==
    /\ pc = "start"
    /\ partnerIdx' = findResiduePairStates(cb, len)
    /\ mask' = ValidMask(partnerIdx', len)
    /\ pc' = "paired"
    /\ UNCHANGED <<len, ca, cb, embedded, states, line, fi, fj, feat>>
    /\ UNCHANGED <<drvVars, dirVars>>

\* features, network and quantiser for the valid residues, INVALID for the rest
EncodeStates ==
    /\ pc = "paired"
    /\ embedded' = {i \in 0 .. len - 1 : mask[i]}
    /\ states' = EncodeAll(ca, partnerIdx, mask, len)
    /\ pc' = "encoded"
    /\ UNCHANGED <<len, ca, cb, partnerIdx, mask, line, fi, fj, feat>>
    /\ UNCHANGED <<drvVars, dirVars>>

\* createdb reads states[0 .. chainLen-1] and frames the record
ReadStates ==
    /\ pc = "encoded"
    /\ line' = Append(PushStates(<<>>, states, 0, len), "\n")
    /\ pc' = "read"
    /\ UNCHANGED <<len, ca, cb, partnerIdx, mask, embedded, states, fi, fj, feat>>
    /\ UNCHANGED <<drvVars, dirVars>>

NextCore == FindPartners \/ EncodeStates \/ ReadStates

SpecCore == InitCore /\ [][NextCore]_vars

\* ============================================================== SpecFeat
\* calcFeatures on a pair of interior residues of a straight or bent chain
InitFeat ==
    /\ InitDrvOff /\ InitDirOff
    /\ pc = "start"
    /\ len = MaxSep + 2
    /\ \E s \in Steps \ {Origin}, bend \in 1 .. MaxSep + 1 :
        ca = Chain(len, [k \in 1 .. len - 1 |->
                            IF k < bend THEN s ELSE Vec3(0, 0, 1)])
    /\ cb = ca
    /\ \E i \in 1 .. MaxSep, j \in 1 .. MaxSep : i /= j /\ fi = i /\ fj = j
    /\ partnerIdx = <<>> /\ mask = <<>> /\ embedded = {} /\ states = <<>>
    /\ line = <<>> /\ feat = <<>>

CalcFeatures ==
    /\ pc = "start"
    /\ feat' = calcFeatures(ca, fi, fj)
    /\ pc' = "features"
    /\ UNCHANGED <<len, ca, cb, partnerIdx, mask, embedded, states, line, fi, fj>>
    /\ UNCHANGED <<drvVars, dirVars>>

NextFeat == CalcFeatures

SpecFeat == InitFeat /\ [][NextFeat]_vars

\* ------------------------------------------------- claims on the 3Di core
Encoded == pc \in {"encoded", "read"}
Paired == pc \in {"paired", "encoded", "read"}
Interior(i) == 0 < i /\ i < len - 1

\* C1 as stated: the code of a residue that could not be assigned is the
\* reserved code K = 20, no centroid's index; every code is in 0..K-1 or K, and
\* it is K exactly for the residues that are not valid.
C1_InvalidIsReservedK ==
    Encoded =>
        \A i \in 0 .. len - 1 :
            /\ states[i] \in (0 .. CENTROID_CNT - 1) \cup {CENTROID_CNT}
            /\ (states[i] = CENTROID_CNT) <=> ~mask[i]

\* C1 amended: Alphabet3Di::INVALID_STATE is 2, a centroid's index (the coil
\* state) and not K; every code of the state array is in 0..K-1, and a residue
\* that is not valid carries INVALID_STATE.  Only Alphabet3diSeqDist reserves
\* INVALID_STATE = CENTROID_CNT.
C1_InvalidIsCoilState ==
    Encoded =>
        /\ \A i \in 0 .. len - 1 :
            /\ states[i] \in 0 .. CENTROID_CNT - 1
            /\ ~mask[i] => states[i] = INVALID_STATE
        /\ INVALID_STATE /= CENTROID_CNT
        /\ SeqDist_INVALID_STATE = SeqDist_CENTROID_CNT

C1_Witness ==
    /\ pc = "encoded"
    /\ \E i \in 0 .. len - 1 : mask[i] /\ states[i] /= INVALID_STATE
    /\ \E i \in 0 .. len - 1 : ~mask[i] /\ states[i] = 2

\* C2: residues 0 and L-1 are INVALID and never reach the feature extractor or
\* the network; for L < 3 every residue is INVALID; the driver reads exactly L
\* codes, in residue order, and adds the newline.
C2_EndpointsInvalid ==
    pc = "read" =>
        /\ DOMAIN states = 0 .. len - 1
        /\ states[0] = INVALID_STATE /\ states[len - 1] = INVALID_STATE
        /\ 0 \notin embedded /\ (len - 1) \notin embedded
        /\ len < 3 => (embedded = {} /\ \A i \in 0 .. len - 1 : states[i] = INVALID_STATE)
        /\ Len(line) = len + 1
        /\ \A pos \in 0 .. len - 1 : line[pos + 1] = num2aa[states[pos] + 1]
        /\ line[len + 1] = "\n"

C2_Witness ==
    /\ pc = "read" /\ len = 2
    /\ states[0] = INVALID_STATE /\ states[1] = INVALID_STATE
    /\ Len(line) = 3

\* C3 as stated: where two consecutive interior C-alpha atoms coincide, the call
\* still returns and one of the two residues is INVALID (or marked not valid).
C3_DegeneratePairInvalid ==
    Encoded =>
        \A k \in 1 .. len - 3 :
            ca[k] = ca[k + 1] =>
                \/ states[k] = INVALID_STATE \/ states[k + 1] = INVALID_STATE
                \/ ~mask[k] \/ ~mask[k + 1]

\* squared distance of two points, written out
D2(a, b) ==
    (a.x - b.x) * (a.x - b.x) + (a.y - b.y) * (a.y - b.y) + (a.z - b.z) * (a.z - b.z)

\* cost(i, p) <= cost(i, k) and cost(i, p) = cost(i, k), from the coordinates
TrueCostLE(i, p, k) ==
    SqrtLE(D2(cb[i], cb[p]), D2(cb[i], cb[k]),
           SeqPenalty(Abs(k - i)) - SeqPenalty(Abs(p - i)))
TrueCostEQ(i, p, k) == TrueCostLE(i, p, k) /\ TrueCostLE(i, k, p)

Candidates(i) == {j \in 0 .. len - 1 : j /= i /\ 0 < j /\ j < len - 1}

\* C4: for an interior residue the partner is the candidate of least cost, ties
\* to the smallest |j-i| and then the smallest j; a valid residue's partner is a
\* candidate (never i, an endpoint or -1); without a candidate the residue is
\* not valid.
C4_PartnerIsArgmin ==
    Paired =>
        \A i \in 0 .. len - 1 :
            /\ mask[i] => partnerIdx[i] \in Candidates(i)
            /\ (Interior(i) /\ Candidates(i) = {}) => ~mask[i]
            /\ (Interior(i) /\ Candidates(i) /= {}) =>
                /\ partnerIdx[i] \in Candidates(i)
                /\ \A k \in Candidates(i) :
                    /\ TrueCostLE(i, partnerIdx[i], k)
                    /\ TrueCostEQ(i, partnerIdx[i], k) =>
                        \/ Abs(partnerIdx[i] - i) < Abs(k - i)
                        \/ Abs(partnerIdx[i] - i) = Abs(k - i) /\ partnerIdx[i] <= k

\* a chain of MaxLen residues on which the partner of some residue wins
\*  - a tie against a candidate farther in sequence that the scan met first and
\*    whose separation passes PenaltyClip,
\*  - a tie against a farther candidate of larger penalty and smaller distance,
\*  - a tie against a candidate at the same separation, by the smaller j,
\* some candidate costs strictly more than the partner, and some partner lies
\* beyond PenaltyClip and would lose to a nearer candidate were f not clipped.
C4_Witness ==
    /\ pc = "paired" /\ len = MaxLen
    /\ \E i \in 1 .. len - 2 :
        \E k \in Candidates(i) :
            /\ mask[i] /\ TrueCostEQ(i, partnerIdx[i], k)
            /\ Abs(partnerIdx[i] - i) < Abs(k - i)
            /\ k < partnerIdx[i]
            /\ Abs(k - i) > PenaltyClip
    /\ \E i \in 1 .. len - 2 :
        \E k \in Candidates(i) :
            /\ mask[i] /\ TrueCostEQ(i, partnerIdx[i], k)
            /\ Abs(partnerIdx[i] - i) < Abs(k - i)
            /\ SeqPenalty(Abs(partnerIdx[i] - i)) < SeqPenalty(Abs(k - i))
            /\ D2(cb[i], cb[k]) < D2(cb[i], cb[partnerIdx[i]])
    /\ \E i \in 1 .. len - 2 :
        \E k \in Candidates(i) :
            /\ mask[i] /\ TrueCostEQ(i, partnerIdx[i], k)
            /\ Abs(partnerIdx[i] - i) = Abs(k - i) /\ partnerIdx[i] < k
    /\ \E i \in 1 .. len - 2 :
        \E k \in Candidates(i) : ~TrueCostLE(i, k, partnerIdx[i])
    /\ \E i \in 1 .. len - 2 :
        \E k \in Candidates(i) :
            /\ mask[i] /\ Abs(partnerIdx[i] - i) > PenaltyClip
            /\ ~SqrtLE(D2(cb[i], cb[partnerIdx[i]]), D2(cb[i], cb[k]),
                       PenaltyWeight * Abs(k - i) - PenaltyWeight * Abs(partnerIdx[i] - i))

\* C7: feature 8 is sign(j-i) * min(|j-i|, 4): non-zero, within [-4, 4], equal
\* to j-i while |j-i| <= 4 and to +4 or -4 beyond; feature 9 has the sign of j-i.
C7_Feature8Clipped ==
    pc = "features" =>
        LET d == fj - fi IN
        /\ feat[8] /= 0 /\ -4 <= feat[8] /\ feat[8] <= 4
        /\ (feat[8] < 0) <=> (d < 0)
        /\ Abs(d) <= 4 => feat[8] = d
        /\ d > 4 => feat[8] = 4
        /\ d < -4 => feat[8] = -4
        /\ feat[9].neg <=> (d < 0)
        /\ feat[9].logOf = Abs(d) + 1 /\ feat[9].logOf > 1

C7_Witness ==
    /\ pc = "features" /\ fj - fi = -5 /\ feat[8] = -4 /\ feat[9].neg

\* =============================================================== SpecDrv
\* What GemmiWrapper::load can yield.  A file's chains are taken in turn from a
\* small library of chains, starting at the file's own index, so that the chains
\* of one file and the first chains of two files differ.
Library ==
    <<[ca   |-> <<Vec3(0, 0, 0)>>,
       ami  |-> <<"G">>,
       name |-> <<"1", "a", "b", "c", "_", "A", " ", "l", "y", "s">>],
      [ca   |-> <<Vec3(5, 0, 0), Vec3(9, 0, 0)>>,
       ami  |-> <<"A", "K">>,
       name |-> <<"2", "x", "y", "z", "_", "B", " ", "k", "i", "n">>],
      [ca   |-> <<Vec3(0, 2, 0), Vec3(1, 2, 0), Vec3(1, 3, 0), Vec3(2, 3, 7)>>,
       ami  |-> <<"M", "S", "T", "V">>,
       name |-> <<"3", "p", "q", "r", "_", "C", " ", "p", "r", "o">>]>>

LibOf(i, c) == Library[((i + c) % Len(Library)) + 1]

RECURSIVE FlatCa(_, _)
FlatCa(i, n) == IF n = 0 THEN <<>> ELSE FlatCa(i, n - 1) \o LibOf(i, n - 1).ca
RECURSIVE FlatAmi(_, _)
FlatAmi(i, n) == IF n = 0 THEN <<>> ELSE FlatAmi(i, n - 1) \o LibOf(i, n - 1).ami

\* readStructure after load(filenames[i]) returned true for a file of n chains:
\* the flat atom arrays, and per chain its (first, second) range and its name
ReadStructure(i, n) ==
    [ca    |-> FlatCa(i, n),
     cb    |-> [k \in 1 .. Len(FlatCa(i, n)) |-> add(FlatCa(i, n)[k], Vec3(0, 0, 1))],
     ami   |-> FlatAmi(i, n),
     chain |-> [c \in 1 .. n |->
                  [first  |-> Len(FlatCa(i, c - 1)),
                   second |-> Len(FlatCa(i, c))]],
     names |-> [c \in 1 .. n |-> LibOf(i, c - 1).name]]

\* &arr[chainStart]: the array seen from chainStart, indexed from 0
From(arr, chainStart, chainLen) ==
    [k \in 0 .. chainLen - 1 |-> arr[chainStart + k + 1]]

NFiles == Len(loads)
Threads == 0 .. nthreads - 1
LoadOf(i) == loads[i + 1]

\* #pragma omp for schedule(static): one contiguous block of iterations per thread
ChunkLo(t) ==
    LET q == NFiles \div nthreads
        r == NFiles % nthreads
    IN  IF t < r THEN t * (q + 1) ELSE t * q + r
ChunkHi(t) ==
    LET q == NFiles \div nthreads
        r == NFiles % nthreads
    IN  ChunkLo(t) + (IF t < r THEN q + 1 ELSE q)

\* alphabet3di and camol are declared inside the parallel region: one per thread
OwnBuf_shared(t) == 0
OwnBuf(t) == t

\* reduction(+:incorrectFiles): the private copies are added to the original
RECURSIVE SumUpTo(_, _)
SumUpTo(priv, t) == IF t < 0 THEN 0 ELSE priv[t] + SumUpTo(priv, t - 1)
Reduction_masterOnly(orig, priv) == orig + priv[0]
Reduction(orig, priv) == orig + SumUpTo(priv, nthreads - 1)

\* for (pos ...) camol.push_back(ca[chainStart+pos].x); then .y; then .z
RECURSIVE PushCoord(_, _, _, _, _, _)
PushCoord(buf, arr, chainStart, pos, chainLen, axis) ==
    IF pos >= chainLen THEN buf
    ELSE PushCoord(Append(buf, CASE axis = "x" -> arr[chainStart + pos + 1].x
                                 [] axis = "y" -> arr[chainStart + pos + 1].y
                                 [] axis = "z" -> arr[chainStart + pos + 1].z),
                   arr, chainStart, pos + 1, chainLen, axis)

PushCa(buf, arr, chainStart, chainLen) ==
    PushCoord(PushCoord(PushCoord(buf, arr, chainStart, 0, chainLen, "x"),
                        arr, chainStart, 0, chainLen, "y"),
              arr, chainStart, 0, chainLen, "z")

\* DBWriter::writeData(data, size, key, thread_idx)
WriteData(db, data, key, thread_idx) ==
    [db EXCEPT ![thread_idx] = Append(@, [key |-> key, data |-> data])]

\* DBWriter::close(true): the per-thread files are merged into one database, the
\* entries of thread 0 first.  (DBWriter is library code; a thread's block of
\* file indices lies before the next thread's, so this is also the order by key.)
RECURSIVE MergeUpTo(_, _)
MergeUpTo(db, t) == IF t < 0 THEN <<>> ELSE MergeUpTo(db, t - 1) \o db[t]

Merge(db) == MergeUpTo(db, nthreads - 1)

\* DBWriter::createRenumberedDB(..., LINEAR_ACCCESS): the entries in the order of
\* the data file, with the keys 0, 1, 2, ...
createRenumberedDB(db) == [n \in 1 .. Len(db) |-> [db[n] EXCEPT !.key = n - 1]]

\* the files of the run before anything is closed
EmptyDisk ==
    [ss |-> <<>>, h |-> <<>>, ca |-> <<>>, aa |-> <<>>, lookup |-> <<>>, source |-> <<>>]

\* text is a sequence of one-character strings, a file the sequence of its bytes
Digits == <<"0", "1", "2", "3", "4", "5", "6", "7", "8", "9">>

\* a size_t in decimal, as SSTR and %zu print it
RECURSIVE ToDec(_)
ToDec(n) ==
    IF n < 10 THEN <<Digits[n + 1]>>
    ELSE ToDec(n \div 10) \o <<Digits[(n % 10) + 1]>>

\* filenames[i] of the parallel loop, as a path: its components
InputPath(i) == << <<"i", "n">>, <<"s">> \o ToDec(i) \o <<".", "p", "d", "b">> >>

\* FileUtil::baseName: the last component of a path
baseName(path) == path[Len(path)]

\* Util::parseFastaHeader: the identifier at the head of a header, up to the
\* first blank
RECURSIVE parseFastaHeader(_)
parseFastaHeader(header) ==
    IF Len(header) = 0 \/ header[1] = " " THEN <<>>
    ELSE <<header[1]>> \o parseFastaHeader(Tail(header))

\* size_t prevFileKey = SIZE_MAX: no key of the database
SIZE_MAX == -1

\* the lines of .lookup: id, entryName and fileNumber of every header, by id
LookupLines(h) ==
    [id \in 1 .. Len(h) |->
        [id |-> id - 1, entryName |-> parseFastaHeader(h[id].data),
         fileNumber |-> h[id].key]]

\* the lines of .source: one per change of file key along the headers
RECURSIVE SourceLines(_, _, _, _)
SourceLines(out, h, id, prevFileKey) ==
    IF id > Len(h) THEN out
    ELSE SourceLines(IF prevFileKey /= h[id].key
                     THEN Append(out, [fileKey |-> h[id].key,
                                       name |-> baseName(InputPath(h[id].key))])
                     ELSE out,
                     h, id + 1, h[id].key)

\* lookupEntryToBuffer: id, tab, entryName, tab, fileNumber, newline
lookupEntryToBuffer(entry) ==
    ToDec(entry.id) \o <<"\t">> \o entry.entryName \o <<"\t">>
    \o ToDec(entry.fileNumber) \o <<"\n">>

\* snprintf(sourceBuffer, ..., "%zu\t%s\n", fileKey, baseName)
SourceBuffer(l) == ToDec(l.fileKey) \o <<"\t">> \o l.name \o <<"\n">>

\* the bytes the loop hands to fwrite for .lookup and for .source, in order
RECURSIVE LookupBytes(_, _)
LookupBytes(ls, k) ==
    IF k = 0 THEN <<>> ELSE LookupBytes(ls, k - 1) \o lookupEntryToBuffer(ls[k])

RECURSIVE SourceBytes(_, _)
SourceBytes(ls, k) ==
    IF k = 0 THEN <<>> ELSE SourceBytes(ls, k - 1) \o SourceBuffer(ls[k])

LookupFile(h) == LookupBytes(LookupLines(h), Len(h))

SourceFile(h) ==
    SourceBytes(SourceLines(<<>>, h, 1, SIZE_MAX), Len(SourceLines(<<>>, h, 1, SIZE_MAX)))

InitDrv ==
    /\ InitCoreOff /\ InitDirOff
    /\ pcMain = "parallel"
    /\ nthreads \in 1 .. MaxThreads
    /\ \E n \in 1 .. MaxFiles : loads \in [1 .. n -> -1 .. MaxChains]
    /\ tpc = [t \in Threads |-> "loop"]
    /\ iter = [t \in Threads |-> ChunkLo(t)]
    /\ chn = [t \in Threads |-> 0]
    /\ alphabet3di = [t \in Threads |-> <<>>]
    /\ camol = [t \in Threads |-> <<>>]
    /\ incorrectPriv = [t \in Threads |-> 0]
    /\ incorrectFiles = 0
    /\ torsiondbw = [t \in Threads |-> <<>>]
    /\ hdbw = [t \in Threads |-> <<>>]
    /\ cadbw = [t \in Threads |-> <<>>]
    /\ aadbw = [t \in Threads |-> <<>>]
    /\ writeLookup \in BOOLEAN
    /\ disk = EmptyDisk

\* the head of an iteration whose load fails: clear, load, incorrectFiles++, continue
LoadFails(t) ==
    /\ pcMain = "parallel" /\ tpc[t] = "loop" /\ iter[t] < ChunkHi(t)
    /\ LoadOf(iter[t]) = -1
    /\ alphabet3di' = [alphabet3di EXCEPT ![OwnBuf(t)] = <<>>]
    /\ camol' = [camol EXCEPT ![OwnBuf(t)] = <<>>]
    /\ incorrectPriv' = [incorrectPriv EXCEPT ![t] = @ + 1]
    /\ iter' = [iter EXCEPT ![t] = @ + 1]
    /\ UNCHANGED <<pcMain, nthreads, loads, tpc, chn, incorrectFiles,
                   torsiondbw, hdbw, cadbw, aadbw, writeLookup, disk>>
    /\ UNCHANGED <<coreVars, dirVars>>

\* the head of an iteration whose load succeeds: clear, load, enter the chain loop
LoadOk(t) ==
    /\ pcMain = "parallel" /\ tpc[t] = "loop" /\ iter[t] < ChunkHi(t)
    /\ LoadOf(iter[t]) >= 0
    /\ alphabet3di' = [alphabet3di EXCEPT ![OwnBuf(t)] = <<>>]
    /\ camol' = [camol EXCEPT ![OwnBuf(t)] = <<>>]
    /\ chn' = [chn EXCEPT ![t] = 0]
    /\ IF LoadOf(iter[t]) = 0
       THEN /\ iter' = [iter EXCEPT ![t] = @ + 1]
            /\ tpc' = tpc
       ELSE /\ iter' = iter
            /\ tpc' = [tpc EXCEPT ![t] = "chains"]
    /\ UNCHANGED <<pcMain, nthreads, loads, incorrectPriv, incorrectFiles,
                   torsiondbw, hdbw, cadbw, aadbw, writeLookup, disk>>
    /\ UNCHANGED <<coreVars, dirVars>>

\* one pass of the chain loop, for chain ch of file i
ProcessChain(t) ==
    /\ pcMain = "parallel" /\ tpc[t] = "chains"
    /\ LET i == iter[t]
           ch == chn[t]
           rs == ReadStructure(i, LoadOf(i))
           chainStart == rs.chain[ch + 1].first
           chainEnd == rs.chain[ch + 1].second
           chainLen == chainEnd - chainStart
           st == structure2states(From(rs.ca, chainStart, chainLen),
                                  From(rs.cb, chainStart, chainLen), chainLen)
           a3di == Append(PushStates(alphabet3di[OwnBuf(t)], st, 0, chainLen), "\n")
           cam == PushCa(camol[OwnBuf(t)], rs.ca, chainStart, chainLen)
       IN  /\ alphabet3di' = [alphabet3di EXCEPT ![OwnBuf(t)] = a3di]
           /\ torsiondbw' = WriteData(torsiondbw, a3di, i, t)
           /\ aadbw' = WriteData(aadbw,
                          Append([k \in 1 .. chainLen |-> rs.ami[chainStart + k]], "\n"),
                          i, t)
           /\ hdbw' = WriteData(hdbw, rs.names[ch + 1], i, t)
           /\ camol' = [camol EXCEPT ![OwnBuf(t)] = cam]
           /\ cadbw' = WriteData(cadbw, cam, i, t)
           /\ chn' = [chn EXCEPT ![t] = ch + 1]
           /\ IF ch + 1 < Len(rs.chain)
              THEN /\ tpc' = tpc /\ iter' = iter
              ELSE /\ tpc' = [tpc EXCEPT ![t] = "loop"]
                   /\ iter' = [iter EXCEPT ![t] = @ + 1]
    /\ UNCHANGED <<pcMain, nthreads, loads, incorrectPriv, incorrectFiles,
                   writeLookup, disk>>
    /\ UNCHANGED <<coreVars, dirVars>>

\* the thread's block of iterations is exhausted
ThreadEnd(t) ==
    /\ pcMain = "parallel" /\ tpc[t] = "loop" /\ iter[t] >= ChunkHi(t)
    /\ tpc' = [tpc EXCEPT ![t] = "done"]
    /\ UNCHANGED <<pcMain, nthreads, loads, iter, chn, alphabet3di, camol,
                   incorrectPriv, incorrectFiles, torsiondbw, hdbw, cadbw, aadbw,
                   writeLookup, disk>>
    /\ UNCHANGED <<coreVars, dirVars>>

\* the end of the parallel region: the reduction
Join ==
    /\ pcMain = "parallel"
    /\ \A t \in Threads : tpc[t] = "done"
    /\ incorrectFiles' = Reduction(incorrectFiles, incorrectPriv)
    /\ pcMain' = "joined"
    /\ UNCHANGED <<nthreads, loads, tpc, iter, chn, alphabet3di, camol,
                   incorrectPriv, torsiondbw, hdbw, cadbw, aadbw, writeLookup, disk>>
    /\ UNCHANGED <<coreVars, dirVars>>

\* torsiondbw.close(true); hdbw.close(true); cadbw.close(true); aadbw.close(true)
CloseWriters ==
    /\ pcMain = "joined"
    /\ disk' = [disk EXCEPT !.ss = Merge(torsiondbw), !.h = Merge(hdbw),
                            !.ca = Merge(cadbw), !.aa = Merge(aadbw)]
    /\ pcMain' = "closed"
    /\ UNCHANGED <<nthreads, loads, tpc, iter, chn, alphabet3di, camol, incorrectPriv,
                   incorrectFiles, torsiondbw, hdbw, cadbw, aadbw, writeLookup>>
    /\ UNCHANGED <<coreVars, dirVars>>

\* if (par.writeLookup == true) { ... }: the .lookup and .source files
WriteLookup ==
    /\ pcMain = "closed" /\ writeLookup
    /\ disk' = [disk EXCEPT !.lookup = LookupFile(disk.h), !.source = SourceFile(disk.h)]
    /\ pcMain' = "lookup"
    /\ UNCHANGED <<nthreads, loads, tpc, iter, chn, alphabet3di, camol, incorrectPriv,
                   incorrectFiles, torsiondbw, hdbw, cadbw, aadbw, writeLookup>>
    /\ UNCHANGED <<coreVars, dirVars>>

\* EXIT(EXIT_FAILURE) inside the block: an fwrite to .lookup or .source falls
\* short, or an fclose fails.  Both files are written through buffered streams,
\* so the failure may surface at a later call than the one whose bytes were
\* lost, and exit flushes what is still buffered: each file is left with some
\* leading bytes of what the loop writes to it, the last line cut wherever the
\* write stopped, the two files independently.
LookupFails ==
    /\ pcMain = "closed" /\ writeLookup
    /\ \E a \in 0 .. Len(LookupFile(disk.h)), b \in 0 .. Len(SourceFile(disk.h)) :
        disk' = [disk EXCEPT !.lookup = SubSeq(LookupFile(disk.h), 1, a),
                             !.source = SubSeq(SourceFile(disk.h), 1, b)]
    /\ pcMain' = "exit"
    /\ UNCHANGED <<nthreads, loads, tpc, iter, chn, alphabet3di, camol, incorrectPriv,
                   incorrectFiles, torsiondbw, hdbw, cadbw, aadbw, writeLookup>>
    /\ UNCHANGED <<coreVars, dirVars>>

\* par.writeLookup is false: neither file is written
SkipLookup ==
    /\ pcMain = "closed" /\ ~writeLookup
    /\ pcMain' = "lookup"
    /\ UNCHANGED <<nthreads, loads, tpc, iter, chn, alphabet3di, camol, incorrectPriv,
                   incorrectFiles, torsiondbw, hdbw, cadbw, aadbw, writeLookup, disk>>
    /\ UNCHANGED <<coreVars, dirVars>>

\* DBWriter::createRenumberedDB on _ss, _h, _ca and the amino-acid database, then
\* the message with incorrectFiles and the return
RenumberDatabases ==
    /\ pcMain = "lookup"
    /\ disk' = [disk EXCEPT !.ss = createRenumberedDB(@), !.h = createRenumberedDB(@),
                            !.ca = createRenumberedDB(@), !.aa = createRenumberedDB(@)]
    /\ pcMain' = "done"
    /\ UNCHANGED <<nthreads, loads, tpc, iter, chn, alphabet3di, camol, incorrectPriv,
                   incorrectFiles, torsiondbw, hdbw, cadbw, aadbw, writeLookup>>
    /\ UNCHANGED <<coreVars, dirVars>>

NextDrv ==
    \/ \E t \in Threads : LoadFails(t)
    \/ \E t \in Threads : LoadOk(t)
    \/ \E t \in Threads : ProcessChain(t)
    \/ \E t \in Threads : ThreadEnd(t)
    \/ Join
    \/ CloseWriters
    \/ WriteLookup
    \/ LookupFails
    \/ SkipLookup
    \/ RenumberDatabases

SpecDrv == InitDrv /\ [][NextDrv]_vars

\* -------------------------------------------------- claims on the driver
Files == 0 .. NFiles - 1
Loaded(i) == LoadOf(i) >= 0

\* chain c (from 0) of file i, as the core sees it
ChainLenOf(i, c) == Len(LibOf(i, c).ca)
ChainCa(i, c) == [k \in 0 .. ChainLenOf(i, c) - 1 |-> LibOf(i, c).ca[k + 1]]
ChainCb(i, c) == [k \in 0 .. ChainLenOf(i, c) - 1 |-> add(LibOf(i, c).ca[k + 1], Vec3(0, 0, 1))]
ChainStates(i, c) == structure2states(ChainCa(i, c), ChainCb(i, c), ChainLenOf(i, c))

\* the record of one chain alone: its L characters and the newline
ChainLine(i, c) ==
    [k \in 1 .. ChainLenOf(i, c) + 1 |->
        IF k <= ChainLenOf(i, c) THEN num2aa[ChainStates(i, c)[k - 1] + 1] ELSE "\n"]

\* the 3L floats of one chain alone: its x, then its y, then its z coordinates
ChainXYZ(i, c) ==
    LET L == ChainLenOf(i, c) IN
    [k \in 1 .. 3 * L |->
        IF k <= L THEN ChainCa(i, c)[k - 1].x
        ELSE IF k <= 2 * L THEN ChainCa(i, c)[k - L - 1].y
        ELSE ChainCa(i, c)[k - 2 * L - 1].z]

\* what a run with one thread writes to _ss for chain c of file i: the buffer is
\* cleared once per file and grows by one chain's line per chain
RECURSIVE SerialLine(_, _)
SerialLine(i, c) ==
    IF c = 0 THEN ChainLine(i, 0) ELSE SerialLine(i, c - 1) \o ChainLine(i, c)

\* entry n of a thread's writer is the record of which chain of its file: the
\* number of earlier entries of the same thread with the same key
Ordinal(w, n) == Cardinality({m \in 1 .. n - 1 : w[m].key = w[n].key})

\* number of entries with key i, over all threads
RECURSIVE CountUpTo(_, _, _)
CountUpTo(db, i, t) ==
    IF t < 0 THEN 0
    ELSE Cardinality({m \in 1 .. Len(db[t]) : db[t][m].key = i}) + CountUpTo(db, i, t - 1)
EntriesOf(db, i) == CountUpTo(db, i, nthreads - 1)

RECURSIVE TotalUpTo(_, _)
TotalUpTo(db, t) == IF t < 0 THEN 0 ELSE Len(db[t]) + TotalUpTo(db, t - 1)
Total(db) == TotalUpTo(db, nthreads - 1)

\* C5: whatever the team size and the interleaving, every _ss record is the one
\* the one-thread run writes for that chain of that file.
C5_SameRecordsForAnyTeam ==
    pcMain /= "off" =>
        \A t \in Threads :
            \A n \in 1 .. Len(torsiondbw[t]) :
                LET e == torsiondbw[t][n] IN
                /\ e.key \in Files /\ Loaded(e.key)
                /\ Ordinal(torsiondbw[t], n) < LoadOf(e.key)
                /\ e.data = SerialLine(e.key, Ordinal(torsiondbw[t], n))

C5_Witness ==
    /\ pcMain = "done" /\ nthreads = 2
    /\ Len(torsiondbw[0]) = 2 /\ Len(torsiondbw[1]) = 2

\* C6 as stated: every _ss record is its chain's L characters and one newline,
\* L + 1 bytes, also for the second and later chains of a file.
C6_RecordIsOneChain ==
    pcMain /= "off" =>
        \A t \in Threads :
            \A n \in 1 .. Len(torsiondbw[t]) :
                LET e == torsiondbw[t][n]
                    c == Ordinal(torsiondbw[t], n)
                IN  /\ Len(e.data) = ChainLenOf(e.key, c) + 1
                    /\ e.data = ChainLine(e.key, c)

\* the number of chains of the loaded files 0 .. i
RECURSIVE ChainsUpTo(_)
ChainsUpTo(i) ==
    IF i < 0 THEN 0 ELSE (IF Loaded(i) THEN LoadOf(i) ELSE 0) + ChainsUpTo(i - 1)

\* C8: after the loop every file whose load failed is counted once and has no
\* entry; every other file has one entry per chain in each of the four writers,
\* under its own index; incorrectFiles is the number of failed loads; the four
\* databases hold the same number of entries, also once they are merged and
\* renumbered.
C8_FileAccounting ==
    /\ pcMain \in {"joined", "closed", "lookup", "done", "exit"} =>
        /\ incorrectFiles = Cardinality({i \in Files : ~Loaded(i)})
        /\ \A i \in Files :
            LET want == IF Loaded(i) THEN LoadOf(i) ELSE 0 IN
            /\ EntriesOf(torsiondbw, i) = want
            /\ EntriesOf(hdbw, i) = want
            /\ EntriesOf(cadbw, i) = want
            /\ EntriesOf(aadbw, i) = want
        /\ \A t \in Threads :
            \A n \in 1 .. Len(torsiondbw[t]) :
                /\ torsiondbw[t][n].key \in Files
                /\ hdbw[t][n].key = torsiondbw[t][n].key
                /\ cadbw[t][n].key = torsiondbw[t][n].key
                /\ aadbw[t][n].key = torsiondbw[t][n].key
        /\ Total(torsiondbw) = Total(hdbw)
        /\ Total(hdbw) = Total(cadbw)
        /\ Total(cadbw) = Total(aadbw)
    /\ pcMain \in {"closed", "lookup", "done", "exit"} =>
        /\ Len(disk.ss) = ChainsUpTo(NFiles - 1)
        /\ Len(disk.h) = Len(disk.ss)
        /\ Len(disk.ca) = Len(disk.ss)
        /\ Len(disk.aa) = Len(disk.ss)
        /\ \A n \in 1 .. Len(disk.ss) :
            /\ disk.h[n].key = disk.ss[n].key
            /\ disk.ca[n].key = disk.ss[n].key
            /\ disk.aa[n].key = disk.ss[n].key
            /\ pcMain /= "done" => Loaded(disk.ss[n].key)

C8_Witness ==
    /\ pcMain = "done" /\ nthreads = 2 /\ NFiles = 2
    /\ ~Loaded(1) /\ LoadOf(0) = 2
    /\ incorrectFiles = 1 /\ incorrectPriv[1] = 1
    /\ Total(aadbw) = 2 /\ Len(disk.aa) = 2

\* C9 as stated: every _ca record is its chain's 3L floats, x then y then z,
\* also for the second and later chains of a file.
C9_CaRecordIsOneChain ==
    pcMain /= "off" =>
        \A t \in Threads :
            \A n \in 1 .. Len(cadbw[t]) :
                LET e == cadbw[t][n]
                    c == Ordinal(cadbw[t], n)
                IN  /\ Len(e.data) = 3 * ChainLenOf(e.key, c)
                    /\ e.data = ChainXYZ(e.key, c)

\* =============================================================== SpecDir
\* A path is the sequence of its components: dir + "/" + filename appends one.
\* The directory argument is RootPath; entry n below it is named Names[n] and
\* has a parent (0 is the argument itself).  It is a directory or not, readdir
\* reports a d_type for it (DT_UNKNOWN where the file system tells none), and a
\* directory may refuse opendir.  readdir lists "." and ".." and the entries in
\* an order of the file system's choosing.
Names == <<"a", "b", "c", "d", "e", "f">>
RootPath == <<"root">>
FilePath == <<"x.pdb">>
MissingPath == <<"nowhere">>
OutPath == <<"out">>

Nodes == DOMAIN tree.node
Children(d) == {n \in Nodes : tree.node[n].parent = d}

\* what an entry can be: a directory reported as such that opens or does not, a
\* directory reported DT_UNKNOWN, a regular file reported DT_REG or DT_UNKNOWN
NodeKinds ==
    {[isDir |-> TRUE,  d_type |-> "DT_DIR",     canOpen |-> TRUE],
     [isDir |-> TRUE,  d_type |-> "DT_DIR",     canOpen |-> FALSE],
     [isDir |-> TRUE,  d_type |-> "DT_UNKNOWN", canOpen |-> TRUE],
     [isDir |-> FALSE, d_type |-> "DT_REG",     canOpen |-> FALSE],
     [isDir |-> FALSE, d_type |-> "DT_UNKNOWN", canOpen |-> FALSE]}

Entries ==
    {[parent |-> p, isDir |-> k.isDir, d_type |-> k.d_type, canOpen |-> k.canOpen] :
        p \in 0 .. MaxNodes - 1, k \in NodeKinds}

Trees ==
    {tr \in [node : UNION {[1 .. n -> Entries] : n \in 0 .. MaxNodes},
             rootOpen : BOOLEAN] :
        \A n \in DOMAIN tr.node :
            /\ tr.node[n].parent < n
            /\ tr.node[n].parent /= 0 => tr.node[tr.node[n].parent].isDir}

\* FileUtil::directoryExists
directoryExists(path) == path = RootPath

\* the directory a path names
NodeOf(path) ==
    IF path = RootPath THEN 0
    ELSE CHOOSE n \in Nodes : Names[n] = path[Len(path)]

\* opendir(dir) != NULL
CanOpen(d) == IF d = 0 THEN tree.rootOpen ELSE tree.node[d].isDir /\ tree.node[d].canOpen

\* the orders in which readdir may return the entries of S
Orders(S) ==
    {ord \in [1 .. Cardinality(S) -> S] :
        \A a, b \in 1 .. Cardinality(S) : ord[a] = ord[b] => a = b}

\* what successive readdir calls on a directory return when its entries come in
\* the order ord ("." and ".." are skipped by the loop wherever they stand)
ReadDir(ord) ==
    <<[d_name |-> ".", d_type |-> "DT_DIR"], [d_name |-> "..", d_type |-> "DT_DIR"]>>
    \o [k \in 1 .. Len(ord) |->
            [d_name |-> Names[ord[k]], d_type |-> tree.node[ord[k]].d_type]]

\* dir + "/" + filename
JoinPath_noDir(dir, filename) == <<filename>>
JoinPath(dir, filename) == Append(dir, filename)

\* while (dirent * epdf = readdir(dpdf)) { ... }: the entries from k on
RECURSIVE ReadLoop(_, _, _, _)
ReadLoop(acc, dir, ents, k) ==
    IF k > Len(ents) THEN acc
    ELSE LET filename == ents[k].d_name IN
         ReadLoop(IF filename /= "." /\ filename /= ".."
                  THEN IF ents[k].d_type = "DT_DIR"
                       THEN [acc EXCEPT !.dirs = Append(@, JoinPath(dir, filename))]
                       ELSE [acc EXCEPT !.filenames = Append(@, JoinPath(dir, filename))]
                  ELSE acc,
                  dir, ents, k + 1)

back(v) == v[Len(v)]
pop_back(v) == SubSeq(v, 1, Len(v) - 1)

InitDir ==
    /\ InitCoreOff /\ InitDrvOff
    /\ pcDir = "args"
    /\ \/ argv = <<RootPath, OutPath>> /\ tree \in Trees
       \/ /\ argv \in {<<FilePath, OutPath>>, <<MissingPath, OutPath>>,
                       <<RootPath, FilePath, OutPath>>, <<FilePath, RootPath, OutPath>>,
                       <<OutPath>>}
          /\ tree \in {tr \in Trees : Len(tr.node) <= 1 /\ tr.rootOpen}
    /\ filenames = <<>> /\ outputName = <<>> /\ dirs = <<>> /\ opened = <<>>

\* lines 25-31 when the one remaining argument is an existing directory
StartWalk ==
    /\ pcDir = "args"
    /\ Len(pop_back(argv)) = 1 /\ directoryExists(back(pop_back(argv)))
    /\ outputName' = back(argv)
    /\ dirs' = <<back(pop_back(argv))>>
    /\ filenames' = pop_back(pop_back(argv))
    /\ pcDir' = "walk"
    /\ UNCHANGED <<tree, argv, opened>>
    /\ UNCHANGED <<coreVars, drvVars>>

\* lines 25-28 otherwise: the arguments are the files
KeepArguments ==
    /\ pcDir = "args"
    /\ ~(Len(pop_back(argv)) = 1 /\ directoryExists(back(pop_back(argv))))
    /\ outputName' = back(argv)
    /\ filenames' = pop_back(argv)
    /\ pcDir' = "done"
    /\ UNCHANGED <<tree, argv, dirs, opened>>
    /\ UNCHANGED <<coreVars, drvVars>>

\* one pass of while (dirs.size() != 0): pop, opendir, read every entry, closedir
WalkDirectory ==
    /\ pcDir = "walk" /\ Len(dirs) /= 0
    /\ \E ord \in Orders(Children(NodeOf(back(dirs)))) :
        LET dir == back(dirs)
            rest == pop_back(dirs)
            got == IF CanOpen(NodeOf(dir))
                   THEN ReadLoop([dirs |-> rest, filenames |-> filenames],
                                 dir, ReadDir(ord), 1)
                   ELSE [dirs |-> rest, filenames |-> filenames]
        IN  /\ dirs' = got.dirs
            /\ filenames' = got.filenames
            /\ opened' = Append(opened, [path |-> dir, ok |-> CanOpen(NodeOf(dir))])
    /\ UNCHANGED <<pcDir, tree, argv, outputName>>
    /\ UNCHANGED <<coreVars, drvVars>>

\* the worklist is empty
WalkEnds ==
    /\ pcDir = "walk" /\ Len(dirs) = 0
    /\ pcDir' = "done"
    /\ UNCHANGED <<tree, argv, filenames, outputName, dirs, opened>>
    /\ UNCHANGED <<coreVars, drvVars>>

NextDir == StartWalk \/ KeepArguments \/ WalkDirectory \/ WalkEnds

SpecDir == InitDir /\ [][NextDir]_vars

\* ---------------------------------------------- claims on the directory walk
\* the path of entry n, from the tree
RECURSIVE PathOf(_)
PathOf(n) == IF n = 0 THEN RootPath ELSE Append(PathOf(tree.node[n].parent), Names[n])

\* entry n was read: every directory above it was reported DT_DIR (the argument
\* needs no report) and opendir gave a stream for it
RECURSIVE Reached(_)
Reached(n) ==
    IF n = 0 THEN TRUE
    ELSE LET p == tree.node[n].parent IN
         /\ p = 0 \/ tree.node[p].d_type = "DT_DIR"
         /\ CanOpen(p)
         /\ Reached(p)

NoDuplicates(v) == \A a, b \in 1 .. Len(v) : v[a] = v[b] => a = b
Range(v) == {v[k] : k \in 1 .. Len(v)}

\* the paths opendir was called on, and those it gave a stream for
Tried == [k \in 1 .. Len(opened) |-> opened[k].path]
OpenedOk == {opened[k].path : k \in {m \in 1 .. Len(opened) : opened[m].ok}}

\* the entries the walk takes for directories, the argument included
Directories == {n \in Nodes : tree.node[n].d_type = "DT_DIR"} \cup {0}

\* what the loop leaves: a path for every entry read and not reported DT_DIR,
\* one opendir call for every entry read and reported DT_DIR and for the argument
WalkResult ==
    /\ NoDuplicates(filenames)
    /\ Range(filenames) =
          {PathOf(n) : n \in {m \in Nodes : tree.node[m].d_type /= "DT_DIR" /\ Reached(m)}}
    /\ NoDuplicates(Tried)
    /\ Range(Tried) = {PathOf(n) : n \in {m \in Directories : Reached(m)}}
    /\ \A k \in 1 .. Len(opened) : opened[k].ok = CanOpen(NodeOf(opened[k].path))
    /\ dirs = <<>>

\* what the loop would leave were every entry below the argument found: a path
\* for every entry that is no directory, every subdirectory opened once
WalkResult_everyEntry ==
    /\ NoDuplicates(filenames)
    /\ Range(filenames) = {PathOf(n) : n \in {m \in Nodes : ~tree.node[m].isDir}}
    /\ NoDuplicates(Tried)
    /\ {PathOf(n) : n \in {m \in Nodes : tree.node[m].isDir}} \subseteq OpenedOk
    /\ dirs = <<>>

\* filenames and outputName once the head of createdb is done
WalkFinal ==
    /\ outputName = back(argv)
    /\ IF Len(argv) = 2 /\ argv[1] = RootPath
       THEN WalkResult
       ELSE filenames = pop_back(argv) /\ opened = <<>>

WalkFinal_everyEntry ==
    /\ outputName = back(argv)
    /\ IF Len(argv) = 2 /\ argv[1] = RootPath
       THEN WalkResult_everyEntry
       ELSE filenames = pop_back(argv) /\ opened = <<>>

\* a natural number that every step lowers: the opendir calls still to make,
\* then the position in the code
WalkMeasure ==
    2 * (Cardinality(Directories) - Len(opened))
    + (CASE pcDir = "args" -> 2 [] pcDir = "walk" -> 1 [] OTHER -> 0)

\* the code has a next step: the worklist is empty, or its last path names an
\* entry of the tree that was read and reported DT_DIR
WalkCanStep ==
    \/ pcDir = "args" /\ Len(argv) >= 1
    \/ pcDir = "walk" /\ Len(dirs) = 0
    \/ /\ pcDir = "walk" /\ Len(dirs) /= 0
       /\ \E n \in Directories : PathOf(n) = back(dirs) /\ Reached(n)

\* C10 as stated: the walk ends, and then filenames holds one path for every
\* non-directory entry at any depth below the argument and each subdirectory was
\* opened exactly once; without a single existing directory as argument
\* filenames is the arguments less the output name.
C10_EveryEntryAtAnyDepth ==
    [][/\ WalkMeasure' < WalkMeasure /\ WalkMeasure' >= 0
       /\ pcDir' = "done" => WalkFinal_everyEntry'
       /\ pcDir' /= "done" => WalkCanStep']_vars

\* C10: the walk ends (every step lowers WalkMeasure, which stays a natural
\* number, and a step is ready until the end), and then filenames holds one path
\* for every entry that readdir returned with a d_type other than DT_DIR, read
\* at any depth through directories reported DT_DIR that opendir could open (a
\* directory reported DT_UNKNOWN is such an entry and is not descended into);
\* opendir was called once on the argument and on every entry read and reported
\* DT_DIR, and nothing below a directory it could not open is found; the
\* argument itself is gone from filenames; without a single existing directory
\* as argument filenames is the arguments less the output name.
C10_WalkTerminatesWithEntriesRead ==
    [][/\ WalkMeasure' < WalkMeasure /\ WalkMeasure' >= 0
       /\ pcDir' = "done" => WalkFinal'
       /\ pcDir' /= "done" => WalkCanStep']_vars

\* the walk has ended below a directory that opens and holds a directory
\* reported DT_UNKNOWN with a file inside: the inner directory is in filenames
\* at depth two, its file is not
C10_Witness ==
    /\ pcDir = "done" /\ argv = <<RootPath, OutPath>>
    /\ Len(tree.node) = 3
    /\ tree.node[1].d_type = "DT_DIR" /\ tree.node[1].canOpen
    /\ tree.node[2].isDir /\ tree.node[2].d_type = "DT_UNKNOWN" /\ tree.node[2].parent = 1
    /\ ~tree.node[3].isDir /\ tree.node[3].parent = 2
    /\ filenames = <<PathOf(2)>> /\ Len(filenames[1]) = 3
    /\ Len(opened) = 2 /\ opened[2].ok

====
